---- MODULE Spec2Model ----
(***************************************************************************)
(* Model of .github/workflows/trigger-release/trigger-release.py: the      *)
(* release trigger script, executed up to MaxRuns times in a row against   *)
(* the same Cargo.toml, the crates.io registry and the GitHub forge.       *)
(*                                                                         *)
(* Strings the script builds by concatenation are sequences of one-        *)
(* character strings, so that "v" + crate_version and f"'{tag_name}'" are  *)
(* computed, not assumed.  Bytes read from a subprocess are integers.      *)
(***************************************************************************)
EXTENDS Integers, Sequences, FiniteSets, TLC

VARIABLES
    config,            \* content of Cargo.toml (the same for every run)
    run,               \* number of the current run
    pc,                \* position of the script
    crate_version,     \* line 6
    released_version,  \* line 10
    tag_name,          \* line 22
    sha,               \* line 24
    httpGets,          \* URLs requested by this run
    calls,             \* subprocess.run invocations of this run, in order
    stdout,            \* lines printed by this run
    exitCode,          \* exit status of the process, once pc = "exited"
    forgeTags,         \* tag references existing on the forge
    forgeReleases,     \* releases existing on the forge
    history            \* exit status and output of the runs before this one

vars == <<config, run, pc, crate_version, released_version, tag_name, sha,
          httpGets, calls, stdout, exitCode, forgeTags, forgeReleases, history>>

(***************************************************************************)
(* Bounds and input domains                                                *)
(***************************************************************************)
MaxRuns == 2

Versions == { <<"0",".","1">>, <<"0",".","2">> }

EmptyTable == [k \in {} |-> {}]

\* Cargo.toml: unreadable, or a table with the nested keys present or not.
Configs ==
    { [readable |-> FALSE, doc |-> EmptyTable],
      [readable |-> TRUE,  doc |-> EmptyTable],
      [readable |-> TRUE,  doc |-> [workspace |-> EmptyTable]],
      [readable |-> TRUE,  doc |-> [workspace |-> [package |-> EmptyTable]]] }
    \cup { [readable |-> TRUE,
            doc |-> [workspace |-> [package |-> [version |-> v]]]] : v \in Versions }

Crates == { "bootloader", "bootloader-x" }

\* JSON bodies the registry can answer with.
Responses ==
    { EmptyTable, [errors |-> "not found"], [version |-> EmptyTable] }
    \cup { [version |-> [crate |-> c, num |-> n]] : c \in Crates, n \in Versions }

\* Bytes `git rev-parse HEAD` writes to its standard output.
GitOutputs == { <<97, 49, 10>>, <<98, 50, 10>> }

ReturnCodes == { 0, 1 }

NoValue == << >>

(***************************************************************************)
(* Pure parts of the script                                                *)
(***************************************************************************)

\* bytes.decode("utf-8") on the ASCII bytes that occur
Chr(b) ==
    CASE b = 10 -> "\n"
      [] b = 32 -> " "
      [] b = 49 -> "1"
      [] b = 50 -> "2"
      [] b = 97 -> "a"
      [] b = 98 -> "b"

decode(bytes) == [i \in 1..Len(bytes) |-> Chr(bytes[i])]

Whitespace == { " ", "\n", "\t", "\r" }

RECURSIVE lstrip(_)
lstrip(s) ==
    IF s # << >> /\ Head(s) \in Whitespace THEN lstrip(Tail(s)) ELSE s

RECURSIVE rstrip(_)
rstrip(s) ==
    IF s # << >> /\ s[Len(s)] \in Whitespace
    THEN rstrip(SubSeq(s, 1, Len(s) - 1))
    ELSE s

\* str.strip()
strip(s) == rstrip(lstrip(s))

\* lines 5-6: toml.load and the nested lookup; ok = FALSE when either raises
ReadVersionLenient(cfg) ==
    IF /\ cfg.readable
       /\ "workspace" \in DOMAIN cfg.doc
       /\ "package" \in DOMAIN cfg.doc.workspace
       /\ "version" \in DOMAIN cfg.doc.workspace.package
    THEN [ok |-> TRUE, value |-> cfg.doc.workspace.package.version]
    ELSE [ok |-> TRUE, value |-> NoValue]

ReadVersion(cfg) ==
    IF /\ cfg.readable
       /\ "workspace" \in DOMAIN cfg.doc
       /\ "package" \in DOMAIN cfg.doc.workspace
       /\ "version" \in DOMAIN cfg.doc.workspace.package
    THEN [ok |-> TRUE, value |-> cfg.doc.workspace.package.version]
    ELSE [ok |-> FALSE, value |-> NoValue]

\* line 9
ApiUrl(v) ==
    <<"h","t","t","p","s",":","/","/","c","r","a","t","e","s",".","i","o",
      "/","a","p","i","/","v","1","/","c","r","a","t","e","s","/",
      "b","o","o","t","l","o","a","d","e","r","/">> \o v

\* line 12
IsReleasedWrongKey(resp) == "versions" \in DOMAIN resp

IsReleased(resp) == "version" \in DOMAIN resp

\* lines 13-15: both subscripts and both asserts pass
AssertsSkipped(resp, v) == TRUE

AssertsHold(resp, v) ==
    /\ "crate" \in DOMAIN resp.version
    /\ "num" \in DOMAIN resp.version
    /\ resp.version.crate = "bootloader"
    /\ resp.version.num = v

\* line 22
TagName(v) == <<"v">> \o v

\* line 24: check=True
RevParseUnchecked == FALSE

RevParseChecked == TRUE

\* f"'{x}'" of lines 36-37
Quoted(x) == <<"'">> \o x \o <<"'">>

\* line 29
RefArg(t) == <<"r","e","f","s","/","t","a","g","s","/">> \o t

\* lines 26-31
TagCall(t, s, rc) ==
    [ cmd      |-> "gh api",
      endpoint |-> <<"repos", "rust-osdev", "x86_64", "git", "refs">>,
      method   |-> "POST",
      fields   |-> [ref |-> RefArg(t), sha |-> s],
      returncode |-> rc ]

\* lines 33-40
ReleaseCall(t, s, rc) ==
    [ cmd      |-> "gh api",
      endpoint |-> <<"repos", "rust-osdev", "bootloader", "releases">>,
      method   |-> "POST",
      fields   |-> [tag_name |-> Quoted(t), target_commitish |-> Quoted(s),
                    name |-> Quoted(t)],
      returncode |-> rc ]

\* line 24
RevParseCall(rc) ==
    [ cmd |-> "git rev-parse HEAD", endpoint |-> << >>, method |-> "",
      fields |-> EmptyTable, returncode |-> rc ]

\* the repository a forge call addresses: /repos/<owner>/<repo>/...
Repo(call) == SubSeq(call.endpoint, 2, 3)

IsTagCall(c) == c.cmd = "gh api" /\ c.endpoint[Len(c.endpoint)] = "refs"
IsReleaseCall(c) == c.cmd = "gh api" /\ c.endpoint[Len(c.endpoint)] = "releases"
IsRevParse(c) == c.cmd = "git rev-parse HEAD"

Line(msg, arg) == [msg |-> msg, arg |-> arg]

(***************************************************************************)
(* The script, one action per step                                         *)
(***************************************************************************)
Init ==
    /\ config \in Configs
    /\ run = 1
    /\ pc = "load"
    /\ crate_version = NoValue
    /\ released_version = EmptyTable
    /\ tag_name = NoValue
    /\ sha = NoValue
    /\ httpGets = << >>
    /\ calls = << >>
    /\ stdout = << >>
    /\ exitCode = 0
    /\ forgeTags = {}
    /\ forgeReleases = {}
    /\ history = << >>

\* an uncaught exception: traceback, exit status 1
Abort ==
    /\ pc' = "exited"
    /\ exitCode' = 1

\* lines 5-7
LoadConfig ==
    /\ pc = "load"
    /\ LET rv == ReadVersion(config) IN
       IF rv.ok
       THEN /\ crate_version' = rv.value
            /\ stdout' = Append(stdout, Line("Detected crate version ", rv.value))
            /\ pc' = "get"
            /\ UNCHANGED exitCode
       ELSE /\ Abort
            /\ UNCHANGED <<crate_version, stdout>>
    /\ UNCHANGED <<config, run, released_version, tag_name, sha, httpGets,
                   calls, forgeTags, forgeReleases, history>>

\* lines 9-10: the GET answers with a JSON body, or raises
QueryRegistry ==
    /\ pc = "get"
    /\ httpGets' = Append(httpGets, ApiUrl(crate_version))
    /\ \/ \E resp \in Responses :
            /\ released_version' = resp
            /\ pc' = "check"
            /\ UNCHANGED exitCode
       \/ /\ Abort
          /\ UNCHANGED released_version
    /\ UNCHANGED <<config, run, crate_version, tag_name, sha, calls, stdout,
                   forgeTags, forgeReleases, history>>

\* lines 12-23
CheckReleased ==
    /\ pc = "check"
    /\ IF IsReleased(released_version)
       THEN IF AssertsHold(released_version, crate_version)
            THEN /\ stdout' = Append(stdout,
                        Line("Version already exists on crates.io", crate_version))
                 /\ pc' = "exited"
                 /\ exitCode' = 0
                 /\ UNCHANGED tag_name
            ELSE /\ Abort
                 /\ UNCHANGED <<stdout, tag_name>>
       ELSE /\ tag_name' = TagName(crate_version)
            /\ stdout' = stdout \o
                 << Line("Could not find version on crates.io; creating a new release",
                         crate_version),
                    Line("  Tagging commit as ", TagName(crate_version)) >>
            /\ pc' = "revparse"
            /\ UNCHANGED exitCode
    /\ UNCHANGED <<config, run, crate_version, released_version, sha, httpGets,
                   calls, forgeTags, forgeReleases, history>>

\* lines 24-25: check=True raises CalledProcessError on a non-zero return
\* code; otherwise sha is the decoded, stripped standard output
ResolveCommit ==
    /\ pc = "revparse"
    /\ \E rc \in ReturnCodes, out \in GitOutputs :
         /\ calls' = Append(calls, RevParseCall(rc))
         /\ IF rc # 0 /\ RevParseChecked
            THEN /\ Abort
                 /\ UNCHANGED sha
            ELSE /\ sha' = strip(decode(IF rc = 0 THEN out ELSE << >>))
                 /\ pc' = "tag"
                 /\ UNCHANGED exitCode
    /\ UNCHANGED <<config, run, crate_version, released_version, tag_name,
                   httpGets, stdout, forgeTags, forgeReleases, history>>

\* lines 26-31: the return code is not looked at
CreateTag ==
    /\ pc = "tag"
    /\ \E rc \in ReturnCodes :
         LET c == TagCall(tag_name, sha, rc) IN
         /\ calls' = Append(calls, c)
         /\ forgeTags' = IF rc = 0
                         THEN forgeTags \cup {[repo |-> Repo(c), ref |-> c.fields.ref]}
                         ELSE forgeTags
    /\ pc' = "release"
    /\ UNCHANGED <<config, run, crate_version, released_version, tag_name, sha,
                   httpGets, stdout, exitCode, forgeReleases, history>>

\* lines 33-42: the return code is not looked at; the script ends
CreateRelease ==
    /\ pc = "release"
    /\ \E rc \in ReturnCodes :
         LET c == ReleaseCall(tag_name, sha, rc) IN
         /\ calls' = Append(calls, c)
         /\ forgeReleases' =
              IF rc = 0
              THEN forgeReleases \cup {[repo |-> Repo(c), tag_name |-> c.fields.tag_name]}
              ELSE forgeReleases
    /\ stdout' = Append(stdout, Line("  Done", NoValue))
    /\ pc' = "exited"
    /\ exitCode' = 0
    /\ UNCHANGED <<config, run, crate_version, released_version, tag_name, sha,
                   httpGets, forgeTags, history>>

\* the workflow runs the script again; only the registry and the forge remember
StartRun ==
    /\ pc = "exited"
    /\ run < MaxRuns
    /\ run' = run + 1
    /\ history' = Append(history, [exit |-> exitCode, stdout |-> stdout])
    /\ pc' = "load"
    /\ crate_version' = NoValue
    /\ released_version' = EmptyTable
    /\ tag_name' = NoValue
    /\ sha' = NoValue
    /\ httpGets' = << >>
    /\ calls' = << >>
    /\ stdout' = << >>
    /\ exitCode' = 0
    /\ UNCHANGED <<config, forgeTags, forgeReleases>>

Next ==
    \/ LoadConfig
    \/ QueryRegistry
    \/ CheckReleased
    \/ ResolveCommit
    \/ CreateTag
    \/ CreateRelease
    \/ StartRun

Spec == Init /\ [][Next]_vars

(***************************************************************************)
(* Vocabulary of the properties, written against the recorded inputs and   *)
(* calls rather than against the script's own tests                        *)
(***************************************************************************)
Exited == pc = "exited"

ConfigDeclaresVersion ==
    /\ config.readable
    /\ "workspace" \in DOMAIN config.doc
    /\ "package" \in DOMAIN config.doc.workspace
    /\ "version" \in DOMAIN config.doc.workspace.package

HasVersionKey == "version" \in DOMAIN released_version

HasCrateAndNum ==
    /\ HasVersionKey
    /\ {"crate", "num"} \subseteq DOMAIN released_version.version

RegistryListsVersion ==
    /\ HasCrateAndNum
    /\ released_version.version.crate = "bootloader"
    /\ released_version.version.num = crate_version

RegistryMismatch ==
    /\ HasCrateAndNum
    /\ \/ released_version.version.crate # "bootloader"
       \/ released_version.version.num # crate_version

RevParseIdx == { i \in DOMAIN calls : IsRevParse(calls[i]) }
TagIdx      == { i \in DOMAIN calls : IsTagCall(calls[i]) }
ReleaseIdx  == { i \in DOMAIN calls : IsReleaseCall(calls[i]) }

TagCreated     == \E i \in TagIdx : calls[i].returncode = 0
ReleaseCreated == \E i \in ReleaseIdx : calls[i].returncode = 0

PrintedDone(out) == \E k \in DOMAIN out : out[k].msg = "  Done"

ExpectedTag == <<"v">> \o crate_version

(***************************************************************************)
(* Properties                                                              *)
(***************************************************************************)

\* C1: no run ends with the tag created on the forge but no release created,
\* nor with a release created but no tag created.
C1_TagAndReleaseTogether ==
    Exited => (TagCreated <=> ReleaseCreated)

\* C2: a run that finds the version unlisted and finishes performs exactly one
\* commit-hash resolution, one tag-creation call and one release-creation
\* call, and both forge calls carry the resolved commit hash and the tag
\* name "v" + V.
C2_OneOfEachSameHashAndTag ==
    (Exited /\ exitCode = 0 /\ PrintedDone(stdout) /\ ~HasVersionKey) =>
        /\ Cardinality(RevParseIdx) = 1
        /\ Cardinality(TagIdx) = 1
        /\ Cardinality(ReleaseIdx) = 1
        /\ \A i \in TagIdx :
              /\ calls[i].fields.sha = sha
              /\ calls[i].fields.ref = RefArg(ExpectedTag)
        /\ \A i \in ReleaseIdx :
              /\ calls[i].fields.target_commitish = sha
              /\ calls[i].fields.tag_name = ExpectedTag

\* C3: a run in which an external command exited non-zero ends with a
\* non-zero exit status.
C3_FailureIsFatal ==
    (Exited /\ \E i \in DOMAIN calls : calls[i].returncode # 0) => exitCode # 0

\* C4: when the registry lists the declared version (crate "bootloader", num
\* equal to it), the run makes no subprocess call and exits 0.
C4_AlreadyReleasedNoCalls ==
    (pc # "load" /\ pc # "get" /\ RegistryListsVersion) =>
        /\ calls = << >>
        /\ pc \in {"check", "exited"}
        /\ Exited => exitCode = 0

C4_Witness ==
    /\ Exited
    /\ RegistryListsVersion
    /\ \E k \in DOMAIN stdout : stdout[k].msg = "Version already exists on crates.io"

\* C5: once a run has gone through the release branch and exited 0, a later
\* run with the same configuration changes nothing on the forge, and the
\* forge holds at most one tag v+V and at most one release for it.
C5_SecondRunChangesNothing ==
    [][ (\E k \in DOMAIN history :
            history[k].exit = 0 /\ PrintedDone(history[k].stdout))
        => /\ forgeTags' = forgeTags
           /\ forgeReleases' = forgeReleases
           /\ Cardinality(forgeTags') <= 1
           /\ Cardinality(forgeReleases') <= 1 ]_vars

\* C6: a registry response whose version.crate is not "bootloader" or whose
\* version.num differs from the declared version aborts the run with a
\* non-zero exit and without any subprocess call.
C6_MismatchAborts ==
    (pc # "load" /\ pc # "get" /\ RegistryMismatch) =>
        /\ calls = << >>
        /\ pc \in {"check", "exited"}
        /\ Exited => exitCode # 0

C6_Witness ==
    /\ Exited
    /\ RegistryMismatch
    /\ exitCode # 0
    /\ Len(httpGets) = 1

\* C7: the tag name is exactly "v" followed by the declared version, and that
\* exact value is the ref (after refs/tags/) of the tag-creation call and the
\* tag_name and name of the release-creation call.
C7_TagNameExactEverywhere ==
    /\ pc \in {"revparse", "tag", "release"} => tag_name = ExpectedTag
    /\ \A i \in TagIdx : calls[i].fields.ref = RefArg(ExpectedTag)
    /\ \A i \in ReleaseIdx :
          /\ calls[i].fields.tag_name = ExpectedTag
          /\ calls[i].fields.name = ExpectedTag

\* C8: when Cargo.toml is unreadable or lacks workspace.package.version, the
\* run aborts with no registry GET and no subprocess call.
C8_NoVersionNoNetwork ==
    ~ConfigDeclaresVersion =>
        /\ httpGets = << >>
        /\ calls = << >>
        /\ pc \in {"load", "exited"}
        /\ Exited => exitCode # 0

C8_Witness ==
    /\ ~ConfigDeclaresVersion
    /\ Exited
    /\ exitCode # 0
    /\ run = MaxRuns

\* C9: a forge call is made only after the registry answered without a
\* version key and git rev-parse exited zero; tag creation precedes release
\* creation; a non-zero git rev-parse aborts the run with no forge call.
C9_ForgeCallsOnlyAfterResolution ==
    /\ \A i \in TagIdx \cup ReleaseIdx :
          /\ httpGets # << >>
          /\ ~HasVersionKey
          /\ \E j \in RevParseIdx : j < i /\ calls[j].returncode = 0
    /\ \A i \in ReleaseIdx : \E j \in TagIdx : j < i
    /\ (\E j \in RevParseIdx : calls[j].returncode # 0) =>
          /\ Exited
          /\ exitCode # 0
          /\ TagIdx \cup ReleaseIdx = {}

C9_Witness ==
    /\ Exited
    /\ ReleaseIdx # {}
    /\ TagIdx # {}
    /\ \E j \in RevParseIdx : calls[j].returncode = 0

\* C10: within one run the tag-creation call and the release-creation call
\* address the same forge repository.
C10_SameRepository ==
    \A i \in TagIdx, j \in ReleaseIdx : Repo(calls[i]) = Repo(calls[j])

====
